---- MODULE Spec2Model ----
(***************************************************************************)
(* Model of python/paddle/fluid/contrib/slim/prune/prune_strategy.py:      *)
(* SensitivePruneStrategy (sensitivity sweep, ratio selection, structural  *)
(* propagation of a channel pruning through the graph) and PruneStrategy   *)
(* (masking of the parameters at batch ends).                              *)
(*                                                                         *)
(* Tensors.  A tensor is modelled by the original positions ("labels") of  *)
(* the entries that survive along axis 0 and axis 1.  Two tensors with the *)
(* same label sequences have the same shape and the same values, two with  *)
(* different label sequences differ.  Trailing axes (a conv2d kernel's     *)
(* height and width) are never pruned and are left out.  The masking       *)
(* strategy changes values only: zeroed holds, for each Parameter, the     *)
(* entries (label tuples) whose value is zero.                             *)
(*                                                                         *)
(* Floats.  Python floats are IEEE-754 doubles.  A double d with           *)
(* 2^-56 <= |d| < 16 that is a multiple of 2^-56 is modelled exactly as    *)
(* [neg, hi, lo] with |d| = (hi * 2^30 + lo) * 2^-56, and subtraction      *)
(* rounds to 53 significant bits, ties to even, as the hardware does.      *)
(***************************************************************************)
EXTENDS Integers, Sequences, FiniteSets, TLC

(* ------------------------------ bounds -------------------------------- *)

\* Output channels of the first convolution of every graph of the library.
NC == 2
\* Feature-map height and width of the activation that feeds a mul.
FH == 2
FW == 1
\* The metric the executor returns is one of 0..MaxMetric.
MaxMetric == 1
\* Longest params list of a direct call of _prune_parameters.
MaxParams == 2
\* context.epoch_id is one of 0..MaxEpoch, context.batch_id one of
\* 0..MaxBatch, mini_batch_pruning_frequency one of 1..MaxFrequency.
MaxEpoch == 2
MaxBatch == 2
MaxFrequency == 2

(* --------------------------- IEEE doubles ----------------------------- *)

Limb == 2^30

F(h, l) == [neg |-> FALSE, hi |-> h, lo |-> l]

FOne == F(2^26, 0)
FZero == F(0, 0)

MagLess(a, b) == a.hi < b.hi \/ (a.hi = b.hi /\ a.lo < b.lo)

MagAdd(a, b) ==
  LET l == a.lo + b.lo
  IN  IF l >= Limb THEN F(a.hi + b.hi + 1, l - Limb) ELSE F(a.hi + b.hi, l)

\* a - b for magnitudes a >= b.
MagSub(a, b) ==
  LET l == a.lo - b.lo
  IN  IF l < 0 THEN F(a.hi - b.hi - 1, l + Limb) ELSE F(a.hi - b.hi, l)

BitLen(n) == CHOOSE k \in 0..31 : n < 2^k /\ (k = 0 \/ 2^(k-1) <= n)

\* Round a magnitude to 53 significant bits, ties to even.
Round53(m) ==
  LET total == IF m.hi > 0 THEN 30 + BitLen(m.hi) ELSE BitLen(m.lo)
      drop  == IF total > 53 THEN total - 53 ELSE 0
  IN  IF drop = 0 THEN m
      ELSE LET q    == m.lo \div 2^drop
               rem  == m.lo % 2^drop
               half == 2^(drop - 1)
               up   == IF rem > half \/ (rem = half /\ q % 2 = 1) THEN 1 ELSE 0
               l    == (q + up) * 2^drop
           IN  IF l >= Limb THEN F(m.hi + 1, l - Limb) ELSE F(m.hi, l)

\* x - d for doubles x >= 0 and d >= 0 (ratio -= self.delta_rate).
FSub(x, d) ==
  IF MagLess(x, d)
  THEN [Round53(MagSub(d, x)) EXCEPT !.neg = TRUE]
  ELSE Round53(MagSub(x, d))

\* ratio > 0
FPositive(x) == ~x.neg /\ (x.hi > 0 \/ x.lo > 0)

RECURSIVE MagTimes(_, _)
MagTimes(n, x) == IF n = 0 THEN FZero ELSE MagAdd(x, MagTimes(n - 1, x))

(* ----------------------------- tensors -------------------------------- *)

Iota(n) == [i \in 1..n |-> i - 1]

\* A weight of shape [rows, cols, ...] and a vector of shape [n].
Matrix(rows, cols) == [rank |-> 2, a0 |-> Iota(rows), a1 |-> Iota(cols)]
Vector(n) == [rank |-> 1, a0 |-> Iota(n), a1 |-> << >>]

Shape(t) == IF t.rank = 1 THEN <<Len(t.a0)>> ELSE <<Len(t.a0), Len(t.a1)>>

\* The entries of a tensor, each named by its labels.
Entries(t) ==
  IF t.rank = 1 THEN {<<i>> : i \in {t.a0[k] : k \in 1..Len(t.a0)}}
  ELSE {t.a0[k] : k \in 1..Len(t.a0)} \X {t.a1[k] : k \in 1..Len(t.a1)}

AxisLen(t, axis) == IF axis = 0 THEN Len(t.a0) ELSE Len(t.a1)

\* The entries of s whose 0-based position is not in I, in order.
DropPositions(s, I) ==
  LET f[i \in 0..Len(s)] ==
        IF i = 0 THEN << >>
        ELSE IF (i - 1) \in I THEN f[i - 1] ELSE Append(f[i - 1], s[i])
  IN  f[Len(s)]

SeqToSet(s) == {s[i] : i \in 1..Len(s)}

(* ------------------------------ graphs -------------------------------- *)

\* An operation: its type and its flattened input and output variable names
\* (what _inputs(op) and _outputs(op) return).  op.idx is its position.
Op(t, ins, outs) == [type |-> t, inputs |-> ins, outputs |-> outs]

Inputs(op) == op.inputs
Outputs(op) == op.outputs

\* Recorded shape [N, C, H, W] of an activation variable.
Act(c) == <<1, c, FH, FW>>

\* conv2d(x, w0) -> add(b0) -> conv2d(w1) -> add(b1)
GraphChain ==
  [ops   |-> << Op("conv2d", <<"x", "conv2d_0.w_0">>, <<"c0">>),
                Op("elementwise_add", <<"c0", "conv2d_0.b_0">>, <<"a0">>),
                Op("conv2d", <<"a0", "conv2d_1.w_0">>, <<"c1">>),
                Op("elementwise_add", <<"c1", "conv2d_1.b_0">>, <<"a1">>) >>,
   plist |-> <<"conv2d_0.w_0", "conv2d_0.b_0", "conv2d_1.w_0", "conv2d_1.b_0">>,
   init  |-> [n \in {"conv2d_0.w_0", "conv2d_0.b_0", "conv2d_1.w_0", "conv2d_1.b_0"} |->
               CASE n = "conv2d_0.w_0" -> Matrix(NC, 1)
                 [] n = "conv2d_0.b_0" -> Vector(NC)
                 [] n = "conv2d_1.w_0" -> Matrix(NC + 1, NC)
                 [] n = "conv2d_1.b_0" -> Vector(NC + 1)],
   shape |-> [v \in {"x", "c0", "a0", "c1", "a1"} |->
               CASE v = "x" -> Act(1)
                 [] v \in {"c0", "a0"} -> Act(NC)
                 [] OTHER -> Act(NC + 1)]]

\* conv2d(w0) -> a ; conv2d(w1) -> b ; concat(a, b) -> conv2d(w2)
GraphConcat ==
  [ops   |-> << Op("conv2d", <<"x", "conv2d_0.w_0">>, <<"a">>),
                Op("conv2d", <<"x", "conv2d_1.w_0">>, <<"b">>),
                Op("concat", <<"a", "b">>, <<"c">>),
                Op("conv2d", <<"c", "conv2d_2.w_0">>, <<"d">>) >>,
   plist |-> <<"conv2d_0.w_0", "conv2d_1.w_0", "conv2d_2.w_0">>,
   init  |-> [n \in {"conv2d_0.w_0", "conv2d_1.w_0", "conv2d_2.w_0"} |->
               CASE n = "conv2d_0.w_0" -> Matrix(NC, 1)
                 [] n = "conv2d_1.w_0" -> Matrix(NC + 1, 1)
                 [] n = "conv2d_2.w_0" -> Matrix(1, NC + NC + 1)],
   shape |-> [v \in {"x", "a", "b", "c", "d"} |->
               CASE v \in {"x", "d"} -> Act(1)
                 [] v = "a" -> Act(NC)
                 [] v = "b" -> Act(NC + 1)
                 [] v = "c" -> Act(NC + NC + 1)]]

\* conv2d(w0) -> relu -> mul(fc weight)
GraphFc ==
  [ops   |-> << Op("conv2d", <<"x", "conv2d_0.w_0">>, <<"c0">>),
                Op("relu", <<"c0">>, <<"r0">>),
                Op("mul", <<"r0", "fc_0.w_0">>, <<"f0">>) >>,
   plist |-> <<"conv2d_0.w_0", "fc_0.w_0">>,
   init  |-> [n \in {"conv2d_0.w_0", "fc_0.w_0"} |->
               CASE n = "conv2d_0.w_0" -> Matrix(NC, 1)
                 [] n = "fc_0.w_0" -> Matrix(NC * FH * FW, 1)],
   shape |-> [v \in {"x", "c0", "r0", "f0"} |->
               CASE v = "x" -> Act(1)
                 [] v \in {"c0", "r0"} -> Act(NC)
                 [] v = "f0" -> <<1, 1>>]]

\* conv2d(w0) -> batch_norm -> conv2d(w1)
GraphBn ==
  [ops   |-> << Op("conv2d", <<"x", "conv2d_0.w_0">>, <<"c0">>),
                Op("batch_norm",
                   <<"batch_norm_0.w_0", "batch_norm_0.b_0", "batch_norm_0.w_1",
                     "batch_norm_0.w_2", "c0">>,
                   <<"y0", "batch_norm_0.w_1", "batch_norm_0.w_2">>),
                Op("conv2d", <<"y0", "conv2d_1.w_0">>, <<"c1">>) >>,
   plist |-> <<"conv2d_0.w_0", "batch_norm_0.w_0", "batch_norm_0.b_0",
               "batch_norm_0.w_1", "batch_norm_0.w_2", "conv2d_1.w_0">>,
   init  |-> [n \in {"conv2d_0.w_0", "batch_norm_0.w_0", "batch_norm_0.b_0",
                     "batch_norm_0.w_1", "batch_norm_0.w_2", "conv2d_1.w_0"} |->
               CASE n = "conv2d_0.w_0" -> Matrix(NC, 1)
                 [] n = "conv2d_1.w_0" -> Matrix(1, NC)
                 [] OTHER -> Vector(NC)],
   shape |-> [v \in {"x", "c0", "y0", "c1"} |->
               CASE v \in {"x", "c1"} -> Act(1)
                 [] OTHER -> Act(NC)]]

\* conv2d(w0) -> c0, consumed by add(b0) and, later in the program, by relu
GraphTail ==
  [ops   |-> << Op("conv2d", <<"x", "conv2d_0.w_0">>, <<"c0">>),
                Op("elementwise_add", <<"c0", "conv2d_0.b_0">>, <<"a0">>),
                Op("relu", <<"c0">>, <<"r0">>) >>,
   plist |-> <<"conv2d_0.w_0", "conv2d_0.b_0">>,
   init  |-> [n \in {"conv2d_0.w_0", "conv2d_0.b_0"} |->
               CASE n = "conv2d_0.w_0" -> Matrix(NC, 1)
                 [] n = "conv2d_0.b_0" -> Vector(NC)],
   shape |-> [v \in {"x", "c0", "a0", "r0"} |->
               CASE v = "x" -> Act(1)
                 [] OTHER -> Act(NC)]]

\* conv2d(w0) -> add(b0) -> a0 ; conv2d(w1) -> c1 ; add(a0, c1) -> conv2d(w2)
GraphRes ==
  [ops   |-> << Op("conv2d", <<"x", "conv2d_0.w_0">>, <<"c0">>),
                Op("elementwise_add", <<"c0", "conv2d_0.b_0">>, <<"a0">>),
                Op("conv2d", <<"x", "conv2d_1.w_0">>, <<"c1">>),
                Op("elementwise_add", <<"a0", "c1">>, <<"s0">>),
                Op("conv2d", <<"s0", "conv2d_2.w_0">>, <<"c2">>) >>,
   plist |-> <<"conv2d_0.w_0", "conv2d_0.b_0", "conv2d_1.w_0", "conv2d_2.w_0">>,
   init  |-> [n \in {"conv2d_0.w_0", "conv2d_0.b_0", "conv2d_1.w_0", "conv2d_2.w_0"} |->
               CASE n = "conv2d_0.w_0" -> Matrix(NC, 1)
                 [] n = "conv2d_0.b_0" -> Vector(NC)
                 [] n = "conv2d_1.w_0" -> Matrix(NC, 1)
                 [] n = "conv2d_2.w_0" -> Matrix(1, NC)],
   shape |-> [v \in {"x", "c0", "a0", "c1", "s0", "c2"} |->
               CASE v \in {"x", "c2"} -> Act(1)
                 [] OTHER -> Act(NC)]]

\* conv2d(w0) -> c0 ; conv2d(c0, w1) -> c1 ; add(c0, c1): an identity shortcut
GraphSkip ==
  [ops   |-> << Op("conv2d", <<"x", "conv2d_0.w_0">>, <<"c0">>),
                Op("conv2d", <<"c0", "conv2d_1.w_0">>, <<"c1">>),
                Op("elementwise_add", <<"c0", "c1">>, <<"s0">>) >>,
   plist |-> <<"conv2d_0.w_0", "conv2d_1.w_0">>,
   init  |-> [n \in {"conv2d_0.w_0", "conv2d_1.w_0"} |->
               CASE n = "conv2d_0.w_0" -> Matrix(NC, 1)
                 [] n = "conv2d_1.w_0" -> Matrix(NC, NC)],
   shape |-> [v \in {"x", "c0", "c1", "s0"} |->
               CASE v = "x" -> Act(1)
                 [] OTHER -> Act(NC)]]

\* conv2d(w0) -> c0, consumed by conv2d(w1) and by mul(fc weight) -> relu
GraphFork ==
  [ops   |-> << Op("conv2d", <<"x", "conv2d_0.w_0">>, <<"c0">>),
                Op("conv2d", <<"c0", "conv2d_1.w_0">>, <<"c1">>),
                Op("mul", <<"c0", "fc_0.w_0">>, <<"f0">>),
                Op("relu", <<"f0">>, <<"g0">>) >>,
   plist |-> <<"conv2d_0.w_0", "conv2d_1.w_0", "fc_0.w_0">>,
   init  |-> [n \in {"conv2d_0.w_0", "conv2d_1.w_0", "fc_0.w_0"} |->
               CASE n = "conv2d_0.w_0" -> Matrix(NC, 1)
                 [] n = "conv2d_1.w_0" -> Matrix(1, NC)
                 [] n = "fc_0.w_0" -> Matrix(NC * FH * FW, 1)],
   shape |-> [v \in {"x", "c0", "c1", "f0", "g0"} |->
               CASE v \in {"x", "c1"} -> Act(1)
                 [] v = "c0" -> Act(NC)
                 [] OTHER -> <<1, 1>>]]

\* conv2d(w0) -> split -> (s1, s2) -> sum(s1, s2, r1) -> relu -> r1: the
\* sum takes two outputs of the split, and sum and relu form a cycle.
GraphLoop ==
  [ops   |-> << Op("conv2d", <<"x", "conv2d_0.w_0">>, <<"c0">>),
                Op("split", <<"c0">>, <<"s1", "s2">>),
                Op("sum", <<"s1", "s2", "r1">>, <<"t0">>),
                Op("relu", <<"t0">>, <<"r1">>) >>,
   plist |-> <<"conv2d_0.w_0">>,
   init  |-> [n \in {"conv2d_0.w_0"} |-> Matrix(NC, 1)],
   shape |-> [v \in {"x", "c0", "s1", "s2", "t0", "r1"} |->
               CASE v = "x" -> Act(1)
                 [] OTHER -> Act(NC)]]

GraphIds == {"chain", "concat", "fc", "bn", "tail", "res", "skip", "fork", "loop"}

Graph(id) ==
  CASE id = "chain"  -> GraphChain
    [] id = "concat" -> GraphConcat
    [] id = "fc"     -> GraphFc
    [] id = "bn"     -> GraphBn
    [] id = "tail"   -> GraphTail
    [] id = "res"    -> GraphRes
    [] id = "skip"   -> GraphSkip
    [] id = "fork"   -> GraphFork
    [] id = "loop"   -> GraphLoop

\* isinstance(graph.get_var(name), Parameter)
IsParameter(g, name) == name \in SeqToSet(g.plist)

\* re.match('conv2d_.+\.w_.+', param.name), over the names of the library
IsConvWeightName(name) == name \in {"conv2d_0.w_0", "conv2d_1.w_0", "conv2d_2.w_0"}

\* graph.pre_ops(op): the operations that produce an input of op, in
\* program order.
pre_ops(g, i) ==
  LET f[j \in 0..Len(g.ops)] ==
        IF j = 0 THEN << >>
        ELSE IF SeqToSet(Outputs(g.ops[j])) \cap SeqToSet(Inputs(g.ops[i])) # {}
             THEN Append(f[j - 1], j) ELSE f[j - 1]
  IN  f[Len(g.ops)]

(* ------------------------------ pruner -------------------------------- *)

\* Optional values: None is the empty tuple, a value v is <<v>>.
None == << >>
Some(v) == <<v>>

\* The number of channels the pruner drops from n at a ratio: n * ratio
\* rounded to the nearest integer.
PrunedNum(n, ratio) ==
  IF ratio.neg THEN 0
  ELSE MagAdd(MagTimes(n, ratio), F(2^25, 0)).hi \div 2^26

\* The ascending sequence of the elements of a set of naturals.
RECURSIVE SortedSeq(_)
SortedSeq(S) ==
  IF S = {} THEN << >>
  ELSE LET lo == CHOOSE x \in S : \A y \in S : x <= y
       IN  <<lo>> \o SortedSeq(S \ {lo})

\* pruner.cal_pruned_idx(name, tensor, ratio): the index lists the pruner
\* may return for axis 0 (which channels it drops depends on the values).
cal_pruned_idx(t, ratio) ==
  LET n == Len(t.a0)
      k == PrunedNum(n, ratio)
  IN  {SortedSeq(S) : S \in {T \in SUBSET (0..(n - 1)) : Cardinality(T) = k}}

\* Whether numpy accepts the indices for that axis of the tensor.
IndicesValid(t, idxs, axis) ==
  /\ axis < t.rank
  /\ \A i \in 1..Len(idxs) : idxs[i] >= 0 /\ idxs[i] < AxisLen(t, axis)

\* pruner.prune_tensor(tensor, pruned_idx, pruned_axis, lazy): the tensor
\* without the given positions along the axis.
prune_tensor(t, idxs, axis, lazy) ==
  IF axis = 0 THEN [t EXCEPT !.a0 = DropPositions(t.a0, SeqToSet(idxs))]
  ELSE [t EXCEPT !.a1 = DropPositions(t.a1, SeqToSet(idxs))]

(* -------------------------- tensor mutation --------------------------- *)

\* The part of the state a pruning changes: m.tensor (the scope), m.desc
\* (each Parameter's shape descriptor), m.backup (self.backup), m.log (the
\* prune_tensor calls of this invocation) and m.err (the exception that is
\* propagating, "none" while there is none).

SetBackup(backup, name, t) ==
  [x \in DOMAIN backup \cup {name} |-> IF x = name THEN t ELSE backup[x]]

set_shape_lazy(m, name, t, pruned, idxs, axis, lazy) ==
  [m EXCEPT !.desc[name] = Shape(pruned),
            !.backup = IF lazy THEN SetBackup(m.backup, name, t) ELSE m.backup,
            !.tensor[name] = pruned,
            !.log = Append(m.log, [param |-> name, idxs |-> SeqToSet(idxs), axis |-> axis])]

\* _prune_parameter_by_idx(scope, param, pruned_idx, pruned_axis, place, lazy);
\* oidxs is the optional index list (None when no conv2d seeded it).
prune_parameter_by_idx(m, name, oidxs, axis, lazy) ==
  IF m.err # "none" THEN m
  ELSE IF name \notin DOMAIN m.tensor THEN [m EXCEPT !.err = "AttributeError"]
  ELSE IF oidxs = None THEN [m EXCEPT !.err = "TypeError"]
  ELSE LET t == m.tensor[name]
           idxs == oidxs[1]
       IN  IF ~IndicesValid(t, idxs, axis) THEN [m EXCEPT !.err = "IndexError"]
           ELSE set_shape_lazy(m, name, t, prune_tensor(t, idxs, axis, lazy),
                               idxs, axis, lazy)

\* _prune_parameter(scope, param, ratio, place, lazy) with the index list the
\* pruner returned.
prune_parameter(m, name, idxs, lazy) ==
  IF m.err # "none" THEN m
  ELSE LET t == m.tensor[name]
       IN  set_shape_lazy(m, name, t, prune_tensor(t, idxs, 0, lazy), idxs, 0, lazy)

\* for param_name in self._inputs(op): if it is a Parameter, prune it by idx.
PruneParameterInputs(g, m, op, oidxs, axis, lazy) ==
  LET ins == Inputs(op)
      f[i \in 0..Len(ins)] ==
        IF i = 0 THEN m
        ELSE IF IsParameter(g, ins[i])
             THEN prune_parameter_by_idx(f[i - 1], ins[i], oidxs, axis, lazy)
             ELSE f[i - 1]
  IN  f[Len(ins)]

\* _prune_add_op(graph, scope, op, pruned_idxs, place, excludes, lazy)
RECURSIVE prune_add_op(_, _, _, _, _, _)
prune_add_op(g, m, i, oidxs, excludes, lazy) ==
  LET biased == PruneParameterInputs(g, m, g.ops[i], oidxs, 0, lazy)
      pre == pre_ops(g, i)
      f[j \in 0..Len(pre)] ==
        IF j = 0 THEN biased
        ELSE IF pre[j] \in excludes THEN f[j - 1]
        ELSE IF g.ops[pre[j]].type = "conv2d"
             THEN PruneParameterInputs(g, f[j - 1], g.ops[pre[j]], oidxs, 0, lazy)
        ELSE IF g.ops[pre[j]].type = "elementwise_add"
             THEN prune_add_op(g, f[j - 1], pre[j], oidxs, excludes, lazy)
        ELSE f[j - 1]
  IN  f[Len(pre)]

(* ------------------------ dependency graph walk ----------------------- *)

\* The operations that take the parameter as an input, in program order.
Consumers(g, name) ==
  LET f[j \in 0..Len(g.ops)] ==
        IF j = 0 THEN << >>
        ELSE IF name \in SeqToSet(Inputs(g.ops[j]))
             THEN Append(f[j - 1], j) ELSE f[j - 1]
  IN  f[Len(g.ops)]

\* The not yet visited operations that take the variable as an input.
UnvisitedConsumers(g, vis, name) ==
  LET f[j \in 0..Len(g.ops)] ==
        IF j = 0 THEN << >>
        ELSE IF name \in SeqToSet(Inputs(g.ops[j])) /\ ~vis[j]
             THEN Append(f[j - 1], j) ELSE f[j - 1]
  IN  f[Len(g.ops)]

\* _get_next_unvisited_op(graph, visited, top_op): None or the list.
get_next_unvisited_op(g, vis, top) ==
  LET outs == Outputs(g.ops[top])
      f[k \in 0..Len(outs)] ==
        IF k = 0 THEN << >>
        ELSE f[k - 1] \o UnvisitedConsumers(g, vis, outs[k])
  IN  IF Len(f[Len(outs)]) > 0 THEN Some(f[Len(outs)]) ELSE None

\* Mutant of NextOps: a mul is expanded like any other operation.
NextOps_past_mul(g, vis, top, name) ==
  IF g.ops[top].type = "conv2d" /\ name \notin SeqToSet(Inputs(g.ops[top]))
  THEN None
  ELSE get_next_unvisited_op(g, vis, top)

\* The next_ops of one iteration of the walk's loop.
NextOps(g, vis, top, name) ==
  IF g.ops[top].type = "conv2d" /\ name \notin SeqToSet(Inputs(g.ops[top]))
  THEN None
  ELSE IF g.ops[top].type = "mul" THEN None
  ELSE get_next_unvisited_op(g, vis, top)

(* ------------------------ structural propagation ---------------------- *)

\* The locals of _pruning_ralated_op: L.m (the state it mutates),
\* L.pruned_idxs, L.corrected_idxs (None or an index list) and L.concat_idx
\* (None while unbound).

\* conv2d that takes the triggering parameter: prune it, seed the indices.
prune_trigger_conv(L, name, idxs, lazy) ==
  [L EXCEPT !.m = prune_parameter(L.m, name, idxs, lazy),
            !.pruned_idxs = Some(idxs),
            !.corrected_idxs = Some(idxs)]

\* Mutant of prune_downstream_conv: the output-channel axis instead of the
\* input-channel axis.
prune_downstream_conv_axis0(g, L, op, lazy) ==
  [L EXCEPT !.m = PruneParameterInputs(g, L.m, op, L.corrected_idxs, 0, lazy)]

\* conv2d that takes the pruned activation: prune its Parameters on axis 1.
prune_downstream_conv(g, L, op, lazy) ==
  [L EXCEPT !.m = PruneParameterInputs(g, L.m, op, L.corrected_idxs, 1, lazy)]

\* related_ops[idx - 1]; Python reads related_ops[-1] as the last element.
LastOp(related_ops, idx) ==
  IF idx = 0 THEN related_ops[Len(related_ops)] ELSE related_ops[idx]

prune_related_add(g, L, related_ops, idx, lazy) ==
  [L EXCEPT !.m = prune_add_op(g, L.m, related_ops[idx + 1], L.corrected_idxs,
                               {LastOp(related_ops, idx)}, lazy)]

\* The last Parameter and the last other variable among the inputs of a mul.
FcParam(g, op) ==
  LET ins == Inputs(op)
      f[i \in 0..Len(ins)] ==
        IF i = 0 THEN None
        ELSE IF IsParameter(g, ins[i]) THEN Some(ins[i]) ELSE f[i - 1]
  IN  f[Len(ins)]

FcInput(g, op) ==
  LET ins == Inputs(op)
      f[i \in 0..Len(ins)] ==
        IF i = 0 THEN None
        ELSE IF IsParameter(g, ins[i]) THEN f[i - 1] ELSE Some(ins[i])
  IN  f[Len(ins)]

\* Mutant of expand_fc: the channel index is not scaled by the feature-map
\* size.
expand_fc_unscaled(idxs, feature_map_size) ==
  LET f[i \in 0..Len(idxs)] ==
        IF i = 0 THEN << >>
        ELSE f[i - 1] \o [k \in 1..feature_map_size |-> (k - 1) + idxs[i]]
  IN  f[Len(idxs)]

\* for i in corrected_idxs: idx += list(range_idx + i * feature_map_size)
expand_fc(idxs, feature_map_size) ==
  LET f[i \in 0..Len(idxs)] ==
        IF i = 0 THEN << >>
        ELSE f[i - 1] \o [k \in 1..feature_map_size |->
                            (k - 1) + idxs[i] * feature_map_size]
  IN  f[Len(idxs)]

prune_related_mul(g, L, op, lazy) ==
  LET fc_input == FcInput(g, op)
      fc_param == FcParam(g, op)
  IN  IF L.m.err # "none" THEN L
      ELSE IF fc_input = None THEN [L EXCEPT !.m.err = "AttributeError"]
      ELSE IF Len(g.shape[fc_input[1]]) < 4 THEN [L EXCEPT !.m.err = "IndexError"]
      ELSE IF L.corrected_idxs = None THEN [L EXCEPT !.m.err = "TypeError"]
      ELSE IF fc_param = None THEN [L EXCEPT !.m.err = "AttributeError"]
      ELSE LET shape == g.shape[fc_input[1]]
               idx == expand_fc(L.corrected_idxs[1], shape[3] * shape[4])
           IN  [L EXCEPT !.corrected_idxs = Some(idx),
                         !.m = prune_parameter_by_idx(L.m, fc_param[1], Some(idx), 0, lazy)]

\* 0-based position of the first occurrence of a name in a list.
IndexOf(names, name) ==
  (CHOOSE i \in 1..Len(names) :
      names[i] = name /\ \A j \in 1..(i - 1) : names[j] # name) - 1

\* for out_name in self._outputs(last_op): if out_name in concat_inputs: ...
concat_slot(concat_idx, concat_inputs, outs) ==
  LET f[k \in 0..Len(outs)] ==
        IF k = 0 THEN concat_idx
        ELSE IF outs[k] \in SeqToSet(concat_inputs)
             THEN Some(IndexOf(concat_inputs, outs[k])) ELSE f[k - 1]
  IN  f[Len(outs)]

\* offset: the recorded channel counts of the concat inputs before the slot.
concat_offset(g, concat_inputs, concat_idx) ==
  LET f[ci \in 0..concat_idx] ==
        IF ci = 0 THEN 0 ELSE f[ci - 1] + g.shape[concat_inputs[ci]][2]
  IN  f[concat_idx]

prune_related_concat(g, L, related_ops, idx) ==
  LET concat_inputs == Inputs(g.ops[related_ops[idx + 1]])
      last_op == LastOp(related_ops, idx)
      slot == concat_slot(L.concat_idx, concat_inputs, Outputs(g.ops[last_op]))
  IN  IF L.m.err # "none" THEN L
      ELSE IF slot = None THEN [L EXCEPT !.m.err = "UnboundLocalError"]
      ELSE IF L.pruned_idxs = None
           THEN [L EXCEPT !.concat_idx = slot, !.m.err = "TypeError"]
      ELSE LET offset == concat_offset(g, concat_inputs, slot[1])
               pruned == L.pruned_idxs[1]
           IN  [L EXCEPT !.concat_idx = slot,
                         !.corrected_idxs =
                            Some([i \in 1..Len(pruned) |-> pruned[i] + offset])]

\* The builtin the batch_norm guard compares with "batch_norm".
PyBuiltinType == "<type 'type'>"

\* mean, variance, alpha, beta = bn_inputs[2], [3], [0], [1], each pruned on
\* axis 0.
prune_related_batch_norm(L, op, lazy) ==
  LET bn_inputs == Inputs(op)
      mean == prune_parameter_by_idx(L.m, bn_inputs[3], L.corrected_idxs, 0, lazy)
      variance == prune_parameter_by_idx(mean, bn_inputs[4], L.corrected_idxs, 0, lazy)
      alpha == prune_parameter_by_idx(variance, bn_inputs[1], L.corrected_idxs, 0, lazy)
      beta == prune_parameter_by_idx(alpha, bn_inputs[2], L.corrected_idxs, 0, lazy)
  IN  [L EXCEPT !.m = beta]

\* One iteration of "for idx, op in enumerate(related_ops)"; idxs is the
\* index list the pruner returns if this iteration asks it.
pruning_ralated_op_step(g, L, related_ops, idx, name, idxs, lazy) ==
  LET op == g.ops[related_ops[idx + 1]]
  IN  IF op.type = "conv2d"
      THEN IF name \in SeqToSet(Inputs(op))
           THEN prune_trigger_conv(L, name, idxs, lazy)
           ELSE prune_downstream_conv(g, L, op, lazy)
      ELSE IF op.type = "elementwise_add"
           THEN prune_related_add(g, L, related_ops, idx, lazy)
      ELSE IF op.type = "mul" THEN prune_related_mul(g, L, op, lazy)
      ELSE IF op.type = "concat" THEN prune_related_concat(g, L, related_ops, idx)
      ELSE IF PyBuiltinType = "batch_norm" THEN prune_related_batch_norm(L, op, lazy)
      ELSE L

(* ------------------------------- state -------------------------------- *)

VARIABLES
  graph,          \* context.graph: the id of a graph of the library
  delta_rate,     \* self.delta_rate
  pc,             \* where the program is
  caller,         \* who called _prune_parameters: "sens" or "direct"
  args,           \* zip(params, ratios) of the direct call
  todo,           \* what is left of zip(params, ratios) in _prune_parameters
  tensor,         \* context.scope: Parameter name -> tensor buffer
  desc,           \* Parameter name -> shape descriptor (param.desc)
  backup,         \* self.backup
  log,            \* the prune_tensor calls of the current invocation
  err,            \* the exception that ended the hook, "none" if none
  sensitivities,  \* self.sensitivities
  accuracy,       \* the baseline metric
  pidx,           \* position of the sweep in graph.all_parameters()
  ratio,          \* the ratio of the current trial or invocation
  param,          \* the triggering parameter
  lazy,           \* the lazy flag of the current call
  stack, visited, visit_path,               \* _forward_search_related_op
  idx, pruned_idxs, corrected_idxs, concat_idx,   \* _pruning_ralated_op
  pre,            \* the scope when the current invocation began
  no_loss_ratios, \* _get_best_ratios: its local dict
  best,           \* _get_best_ratios: its return value, None if none
  start_epoch, end_epoch,         \* Strategy.start_epoch, Strategy.end_epoch
  mini_batch_pruning_frequency,   \* PruneStrategy's, None where there is none
  epoch_id, batch_id,             \* the context of the last on_batch_end
  zeroed,         \* Parameter name -> the entries whose value is zero
  pre_zeroed,     \* zeroed when the last on_batch_end began
  mask            \* the masks the last on_batch_end applied, None if none

vars == <<graph, delta_rate, pc, caller, args, todo, tensor, desc, backup, log, err,
          sensitivities, accuracy, pidx, ratio, param, lazy, stack, visited,
          visit_path, idx, pruned_idxs, corrected_idxs, concat_idx, pre,
          no_loss_ratios, best, start_epoch, end_epoch,
          mini_batch_pruning_frequency, epoch_id, batch_id, zeroed, pre_zeroed,
          mask>>

batchVars == <<start_epoch, end_epoch, mini_batch_pruning_frequency, epoch_id,
               batch_id, zeroed, pre_zeroed, mask>>

config == <<graph, delta_rate, args>>
sweepVars == <<sensitivities, accuracy, pidx, no_loss_ratios, best>>
walkVars == <<stack, visited, visit_path>>
localVars == <<idx, pruned_idxs, corrected_idxs, concat_idx>>
scopeVars == <<tensor, desc, backup>>

EmptyMap == [x \in {} |-> x]

\* delta_rate=0.20, the constructor's default: the double nearest to 0.2.
DefaultDeltaRate == F(13421772, 858993460)
FHalf == F(2^25, 0)
FQuarter == F(2^24, 0)

\* The delta_rate values tried with each graph.
DeltaRates(id) ==
  IF id \in {"fc", "tail"} THEN {DefaultDeltaRate, FQuarter, FHalf} ELSE {FHalf}

\* The ratios of the direct calls of _prune_parameters.
Ratios == {FOne, FHalf}

Metrics == 0..MaxMetric

G == Graph(graph)

\* The conv2d weights of the graph.
ConvWeights(g) == {n \in SeqToSet(g.plist) : IsConvWeightName(n)}

\* The (params, ratios) lists of a direct call, zipped: distinct conv2d
\* weights, each with a ratio.
ArgLists(g) ==
  UNION {{a \in [1..k -> [param : ConvWeights(g), ratio : Ratios]] :
            \A i, j \in 1..k : i # j => a[i].param # a[j].param}
         : k \in 1..MaxParams}

NewCurve == [pruned_percent |-> << >>, acc_loss |-> << >>]

SetCurve(table, name, curve) ==
  [x \in DOMAIN table \cup {name} |-> IF x = name THEN curve ELSE table[x]]

\* The sensitivities argument of the constructor: the default {} or a table
\* that already holds a recorded curve.
ConstructorTables ==
  {EmptyMap,
   SetCurve(EmptyMap, "conv2d_0.w_0",
            [pruned_percent |-> <<FOne>>, acc_loss |-> <<0>>])}

Init ==
  /\ graph \in GraphIds
  /\ delta_rate \in DeltaRates(graph)
  /\ pc = "idle"
  /\ caller = "none"
  /\ args = << >>
  /\ todo = << >>
  /\ tensor = Graph(graph).init
  /\ desc = [n \in DOMAIN Graph(graph).init |-> Shape(Graph(graph).init[n])]
  /\ backup = EmptyMap
  /\ log = << >>
  /\ err = "none"
  /\ sensitivities \in ConstructorTables
  /\ accuracy = 0
  /\ pidx = 0
  /\ ratio = FOne
  /\ param = "none"
  /\ lazy = FALSE
  /\ stack = << >>
  /\ visited = [j \in 1..Len(Graph(graph).ops) |-> FALSE]
  /\ visit_path = << >>
  /\ idx = 0
  /\ pruned_idxs = None
  /\ corrected_idxs = None
  /\ concat_idx = None
  /\ pre = Graph(graph).init
  /\ no_loss_ratios = EmptyMap
  /\ best = None
  /\ start_epoch = 0
  /\ end_epoch = 10
  /\ mini_batch_pruning_frequency = None
  /\ epoch_id = 0
  /\ batch_id = 0
  /\ zeroed = [n \in DOMAIN Graph(graph).init |-> {}]
  /\ pre_zeroed = [n \in DOMAIN Graph(graph).init |-> {}]
  /\ mask = None

(* ------------------------------ actions ------------------------------- *)

\* The start of _pruning_ralated_op(graph, scope, param, ratio, place, lazy):
\* _forward_search_related_op up to its loop.
BeginInvocation(name, r) ==
  /\ param' = name
  /\ ratio' = r
  /\ visited' = [j \in 1..Len(G.ops) |-> FALSE]
  /\ stack' = Consumers(G, name)
  /\ visit_path' = << >>
  /\ log' = << >>
  /\ pre' = tensor
  /\ pc' = "search"

\* _prune_parameters(graph, scope, params, ratios, place, lazy), called
\* directly with conv2d weights.
call_prune_parameters ==
  /\ pc = "idle"
  /\ \E a \in ArgLists(G), lz \in BOOLEAN :
        /\ args' = a
        /\ lazy' = lz
        /\ todo' = Tail(a)
        /\ BeginInvocation(a[1].param, a[1].ratio)
  /\ caller' = "direct"
  /\ UNCHANGED <<graph, delta_rate, batchVars, scopeVars, err, sweepVars, localVars>>

\* on_compression_begin -> _compute_sensitivities: the baseline measurement.
on_compression_begin ==
  /\ pc = "idle"
  /\ \E a \in Metrics : accuracy' = a
  /\ pidx' = 1
  /\ pc' = "sens_param"
  /\ UNCHANGED <<config, batchVars, caller, todo, scopeVars, log, err, sensitivities,
                 ratio, param, lazy, walkVars, localVars, pre, no_loss_ratios, best>>

\* for param in context.graph.all_parameters(): skip the others, start a curve.
sweep_next_param ==
  /\ pc = "sens_param"
  /\ IF pidx > Len(G.plist)
     THEN /\ pc' = "select"
          /\ UNCHANGED <<pidx, sensitivities, ratio, param>>
     ELSE IF ~IsConvWeightName(G.plist[pidx])
     THEN /\ pidx' = pidx + 1
          /\ UNCHANGED <<pc, sensitivities, ratio, param>>
     ELSE /\ sensitivities' = SetCurve(sensitivities, G.plist[pidx], NewCurve)
          /\ ratio' = FOne
          /\ param' = G.plist[pidx]
          /\ pc' = "sens_ratio"
          /\ UNCHANGED pidx
  /\ UNCHANGED <<config, batchVars, caller, todo, scopeVars, log, err, accuracy, lazy,
                 walkVars, localVars, pre, no_loss_ratios, best>>

\* while ratio > 0: self._prune_parameters(..., [param], [ratio], lazy=True)
sweep_next_ratio ==
  /\ pc = "sens_ratio"
  /\ IF FPositive(ratio)
     THEN /\ BeginInvocation(param, ratio)
          /\ lazy' = TRUE
          /\ caller' = "sens"
          /\ UNCHANGED pidx
     ELSE /\ pidx' = pidx + 1
          /\ pc' = "sens_param"
          /\ UNCHANGED <<param, ratio, lazy, caller, walkVars, log, pre>>
  /\ UNCHANGED <<config, batchVars, todo, scopeVars, err, sensitivities,
                 accuracy, localVars, no_loss_ratios, best>>

\* Mutant of forward_search_related_op: the top of the stack is appended to
\* the path whether or not it was visited.
forward_search_related_op_revisit ==
  /\ pc = "search"
  /\ IF Len(stack) > 0
     THEN LET top_op == stack[Len(stack)]
              vis == [visited EXCEPT ![top_op] = TRUE]
              next_ops == NextOps(G, vis, top_op, param)
          IN  /\ visit_path' = Append(visit_path, top_op)
              /\ visited' = vis
              /\ stack' = IF next_ops = None THEN SubSeq(stack, 1, Len(stack) - 1)
                          ELSE stack \o next_ops[1]
              /\ UNCHANGED <<pc, localVars>>
     ELSE /\ pc' = "propagate"
          /\ idx' = 0
          /\ pruned_idxs' = None
          /\ corrected_idxs' = None
          /\ concat_idx' = None
          /\ UNCHANGED walkVars
  /\ UNCHANGED <<config, batchVars, caller, todo, scopeVars, log, err, sweepVars,
                 ratio, param, lazy, pre>>

\* One iteration of the loop of _forward_search_related_op; when the stack is
\* empty the walk returns and the propagation loop starts.
forward_search_related_op ==
  /\ pc = "search"
  /\ IF Len(stack) > 0
     THEN LET top_op == stack[Len(stack)]
              vis == [visited EXCEPT ![top_op] = TRUE]
              next_ops == NextOps(G, vis, top_op, param)
          IN  /\ visit_path' = IF ~visited[top_op] THEN Append(visit_path, top_op)
                               ELSE visit_path
              /\ visited' = vis
              /\ stack' = IF next_ops = None THEN SubSeq(stack, 1, Len(stack) - 1)
                          ELSE stack \o next_ops[1]
              /\ UNCHANGED <<pc, localVars>>
     ELSE /\ pc' = "propagate"
          /\ idx' = 0
          /\ pruned_idxs' = None
          /\ corrected_idxs' = None
          /\ concat_idx' = None
          /\ UNCHANGED walkVars
  /\ UNCHANGED <<config, batchVars, caller, todo, scopeVars, log, err, sweepVars,
                 ratio, param, lazy, pre>>

\* What the pruner may answer in the iteration at idx.
PrunerAnswers ==
  LET op == G.ops[visit_path[idx + 1]]
  IN  IF op.type = "conv2d" /\ param \in SeqToSet(Inputs(op))
      THEN cal_pruned_idx(tensor[param], ratio)
      ELSE {<< >>}

\* One iteration of the loop of _pruning_ralated_op.
pruning_ralated_op ==
  /\ pc = "propagate"
  /\ idx < Len(visit_path)
  /\ \E idxs \in PrunerAnswers :
       LET L0 == [m |-> [tensor |-> tensor, desc |-> desc, backup |-> backup,
                         log |-> log, err |-> err],
                  pruned_idxs |-> pruned_idxs,
                  corrected_idxs |-> corrected_idxs,
                  concat_idx |-> concat_idx]
           L1 == pruning_ralated_op_step(G, L0, visit_path, idx, param, idxs, lazy)
       IN  /\ tensor' = L1.m.tensor
           /\ desc' = L1.m.desc
           /\ backup' = L1.m.backup
           /\ log' = L1.m.log
           /\ err' = L1.m.err
           /\ pruned_idxs' = L1.pruned_idxs
           /\ corrected_idxs' = L1.corrected_idxs
           /\ concat_idx' = L1.concat_idx
           /\ pc' = IF L1.m.err # "none" THEN "error" ELSE "propagate"
           /\ idx' = IF L1.m.err # "none" THEN idx ELSE idx + 1
  /\ UNCHANGED <<config, batchVars, caller, todo, sweepVars, ratio, param, lazy,
                 walkVars, pre>>

\* The loop of _pruning_ralated_op is over: _prune_parameters goes on with
\* the next (param, ratio) of its zip, or returns.
prune_parameters_next ==
  /\ pc = "propagate"
  /\ idx >= Len(visit_path)
  /\ IF todo # << >>
     THEN /\ BeginInvocation(todo[1].param, todo[1].ratio)
          /\ todo' = Tail(todo)
     ELSE /\ pc' = IF caller = "sens" THEN "measure" ELSE "returned"
          /\ UNCHANGED <<todo, param, ratio, walkVars, log, pre>>
  /\ UNCHANGED <<config, batchVars, caller, scopeVars, err, sweepVars, lazy, localVars>>

\* The restore step: every entry of self.backup written back into the scope.
Restored(scope, bk) ==
  [n \in DOMAIN scope |-> IF n \in DOMAIN bk THEN bk[n] ELSE scope[n]]

\* The rest of a trial: measure, record (ratio, loss), step the ratio, restore.
measure_and_restore ==
  /\ pc = "measure"
  /\ \E pruned_accuracy \in Metrics :
       sensitivities' =
         [sensitivities EXCEPT
            ![param].pruned_percent = Append(@, ratio),
            ![param].acc_loss = Append(@, accuracy - pruned_accuracy)]
  /\ ratio' = FSub(ratio, delta_rate)
  /\ tensor' = Restored(tensor, backup)
  /\ pc' = "sens_ratio"
  /\ UNCHANGED <<config, batchVars, caller, todo, desc, backup, log, err, accuracy,
                 pidx, param, lazy, walkVars, localVars, pre, no_loss_ratios, best>>

\* context.exe.run raises during a trial's measurement.
measure_raises ==
  /\ pc = "measure"
  /\ err' = "ExecutorError"
  /\ pc' = "error"
  /\ UNCHANGED <<config, batchVars, caller, todo, scopeVars, log, sweepVars, ratio,
                 param, lazy, walkVars, localVars, pre>>

\* The restore step run on its own after a direct lazy call.
restore ==
  /\ pc = "returned"
  /\ lazy
  /\ tensor' = Restored(tensor, backup)
  /\ pc' = "restored"
  /\ UNCHANGED <<config, batchVars, caller, todo, desc, backup, log, err, sweepVars, ratio,
                 param, lazy, walkVars, localVars, pre>>

\* _get_best_ratios.  With a non-empty table the loop's first iteration
\* evaluates izip, a name the module neither defines nor imports: NameError.
\* With an empty table the loop body never runs, np.sum([]) is 0.0, and the
\* return expression reads self.target_ratio, which nothing assigns:
\* AttributeError.
get_best_ratios ==
  /\ pc = "select"
  /\ no_loss_ratios' = EmptyMap
  /\ err' = IF DOMAIN sensitivities # {} THEN "NameError" ELSE "AttributeError"
  /\ best' = None
  /\ pc' = "error"
  /\ UNCHANGED <<config, batchVars, caller, todo, scopeVars, log, sensitivities, accuracy,
                 pidx, ratio, param, lazy, walkVars, localVars, pre>>

(* --------------------------- PruneStrategy ---------------------------- *)

\* Mutant of triger: the end epoch is included.
triger_inclusive_end(batch, epoch) ==
  /\ batch % mini_batch_pruning_frequency = 0
  /\ start_epoch <= epoch /\ epoch <= end_epoch

\* _triger(context), with context.batch_id and context.epoch_id.
triger(batch, epoch) ==
  /\ batch % mini_batch_pruning_frequency = 0
  /\ start_epoch <= epoch /\ epoch < end_epoch

\* self.pruner.prune(p) for every Parameter: a zeros mask of the Parameter's
\* shape, given by the entries where it is one.
PrunerMasks ==
  {m \in [DOMAIN tensor -> SUBSET (UNION {Entries(tensor[n]) : n \in DOMAIN tensor})] :
     \A n \in DOMAIN tensor : m[n] \subseteq Entries(tensor[n])}

\* p * zeros_mask, assigned to param: an entry is zero when it was zero or
\* its mask is zero.
assign_masked(z, t, zeros_mask) == z \cup (Entries(t) \ zeros_mask)

\* PruneStrategy.on_batch_end(context)
on_batch_end ==
  /\ pc \in {"idle", "batch_end"}
  /\ \E epoch \in 0..MaxEpoch, batch \in 0..MaxBatch :
       /\ epoch_id' = epoch
       /\ batch_id' = batch
       /\ IF triger(batch, epoch)
          THEN \E m \in PrunerMasks :
                 /\ mask' = Some(m)
                 /\ zeroed' = [n \in DOMAIN zeroed |->
                                 assign_masked(zeroed[n], tensor[n], m[n])]
          ELSE /\ mask' = None
               /\ zeroed' = zeroed
  /\ pre_zeroed' = zeroed
  /\ pre' = tensor
  /\ pc' = "batch_end"
  /\ UNCHANGED <<config, start_epoch, end_epoch, mini_batch_pruning_frequency,
                 caller, todo, scopeVars, log, err, sweepVars, ratio, param,
                 lazy, walkVars, localVars>>

Next ==
  \/ call_prune_parameters
  \/ on_compression_begin
  \/ sweep_next_param
  \/ sweep_next_ratio
  \/ forward_search_related_op
  \/ pruning_ralated_op
  \/ prune_parameters_next
  \/ measure_and_restore
  \/ measure_raises
  \/ restore
  \/ get_best_ratios

Spec == Init /\ [][Next]_vars

\* The loop of _forward_search_related_op runs on once it is entered.
FairSpec == Spec /\ WF_vars(forward_search_related_op)

\* A PruneStrategy on a graph, with the arguments of its constructor.
MaskGraphs == {"loop"}

MaskInit ==
  /\ graph \in MaskGraphs
  /\ start_epoch \in 0..MaxEpoch
  /\ end_epoch \in 0..MaxEpoch
  /\ mini_batch_pruning_frequency \in 1..MaxFrequency
  /\ epoch_id = 0
  /\ batch_id = 0
  /\ zeroed = [n \in DOMAIN Graph(graph).init |-> {}]
  /\ pre_zeroed = [n \in DOMAIN Graph(graph).init |-> {}]
  /\ mask = None
  /\ tensor = Graph(graph).init
  /\ desc = [n \in DOMAIN Graph(graph).init |-> Shape(Graph(graph).init[n])]
  /\ pre = Graph(graph).init
  /\ pc = "idle"
  /\ delta_rate = FZero /\ caller = "none" /\ args = << >> /\ todo = << >>
  /\ backup = EmptyMap /\ log = << >> /\ err = "none"
  /\ sensitivities = EmptyMap /\ accuracy = 0 /\ pidx = 0 /\ ratio = FOne
  /\ param = "none" /\ lazy = FALSE
  /\ stack = << >> /\ visited = [j \in 1..Len(Graph(graph).ops) |-> FALSE]
  /\ visit_path = << >>
  /\ idx = 0 /\ pruned_idxs = None /\ corrected_idxs = None /\ concat_idx = None
  /\ no_loss_ratios = EmptyMap /\ best = None

MaskNext == on_batch_end

MaskSpec == MaskInit /\ [][MaskNext]_vars

(* ------------------------- auxiliary notions -------------------------- *)

\* The loop of _pruning_ralated_op is over and nothing was raised.
InvocationOver == pc = "propagate" /\ idx >= Len(visit_path) /\ err = "none"

\* The index set the pruner chose in the current invocation.
PrunedSet == IF pruned_idxs = None THEN {} ELSE SeqToSet(pruned_idxs[1])

LogOf(name) == {i \in 1..Len(log) : log[i].param = name}

\* The first input of an operation that is not a Parameter.
FirstActivation(g, op) ==
  LET ins == Inputs(op)
  IN  ins[CHOOSE i \in 1..Len(ins) :
             ~IsParameter(g, ins[i]) /\ \A j \in 1..(i - 1) : IsParameter(g, ins[j])]

ParameterInputs(g, op) == {n \in SeqToSet(Inputs(op)) : IsParameter(g, n)}

\* The number of channels the activation v really has when the Parameters
\* hold the tensors T.
RECURSIVE Chan(_, _, _)
Chan(g, T, v) ==
  LET prods == {j \in 1..Len(g.ops) : v \in SeqToSet(Outputs(g.ops[j]))}
  IN  IF prods = {} THEN g.shape[v][2]
      ELSE LET op == g.ops[CHOOSE j \in prods : TRUE]
               ins == Inputs(op)
               sum[i \in 0..Len(ins)] ==
                 IF i = 0 THEN 0 ELSE sum[i - 1] + Chan(g, T, ins[i])
           IN  IF op.type = "conv2d"
               THEN Len(T[CHOOSE w \in ParameterInputs(g, op) : TRUE].a0)
               ELSE IF op.type = "concat" THEN sum[Len(ins)]
               ELSE Chan(g, T, FirstActivation(g, op))

\* Channel consistency of the graph when the Parameters hold the tensors T.
Consistent(g, T) ==
  \A j \in 1..Len(g.ops) :
    LET op == g.ops[j]
        c == Chan(g, T, FirstActivation(g, op))
    IN  /\ op.type = "conv2d" =>
             \A w \in ParameterInputs(g, op) : Len(T[w].a1) = c
        /\ op.type \in {"elementwise_add", "batch_norm"} =>
             /\ \A b \in ParameterInputs(g, op) : Len(T[b].a0) = c
             /\ \A v \in SeqToSet(Inputs(op)) \ ParameterInputs(g, op) :
                  Chan(g, T, v) = c
        /\ op.type = "mul" =>
             \A w \in ParameterInputs(g, op) :
               Len(T[w].a0) = c * g.shape[FirstActivation(g, op)][3]
                                * g.shape[FirstActivation(g, op)][4]

\* _get_best_ratios has run.
SelectorRan == pc = "error" /\ pidx > Len(G.plist)

ZeroLossRatios(name) ==
  {sensitivities[name].pruned_percent[i] :
     i \in {k \in 1..Len(sensitivities[name].acc_loss) :
              sensitivities[name].acc_loss[k] = 0}}

HasZeroLoss(name) == ZeroLossRatios(name) # {}

\* The least n with n * d >= 1: ceil(1 / d).
CeilInverse(d) == CHOOSE n \in 1..64 :
  /\ ~MagLess(MagTimes(n, d), FOne)
  /\ \A k \in 1..(n - 1) : MagLess(MagTimes(k, d), FOne)

(* ------------------------------- claims ------------------------------- *)

\* C1: a lazy pruning of a conv2d weight by any ratio followed by the restore
\* step leaves that weight with its original tensor, shape and values.
C1_LazyPruneRestoreRoundTrip ==
  (\/ pc = "restored" /\ Len(args) = 1
   \/ pc = "sens_ratio" /\ caller = "sens"
        /\ Len(sensitivities[param].pruned_percent) > 0)
  => tensor[param] = pre[param]

\* C2: _pruning_ralated_op takes a channel-consistent graph to a
\* channel-consistent graph.
C2_ChannelConsistencyPreserved ==
  (InvocationOver /\ Consistent(G, pre)) => Consistent(G, tensor)

\* C3: in a conv2d -> elementwise_add -> conv2d chain, pruning the first
\* conv2d's weight removes the index set S from its axis 0, from the bias on
\* axis 0 and from the second conv2d's weight on axis 1, whose axis 0 keeps
\* its size.
C3_ChainAddConv ==
  (InvocationOver /\ graph = "chain" /\ param = "conv2d_0.w_0") =>
    /\ tensor["conv2d_0.w_0"].a0 = DropPositions(pre["conv2d_0.w_0"].a0, PrunedSet)
    /\ tensor["conv2d_0.b_0"].a0 = DropPositions(pre["conv2d_0.b_0"].a0, PrunedSet)
    /\ tensor["conv2d_1.w_0"].a1 = DropPositions(pre["conv2d_1.w_0"].a1, PrunedSet)
    /\ tensor["conv2d_1.w_0"].a0 = pre["conv2d_1.w_0"].a0
    /\ \A i \in LogOf("conv2d_0.b_0") : log[i].axis = 0 /\ log[i].idxs = PrunedSet
    /\ \A i \in LogOf("conv2d_1.w_0") : log[i].axis = 1 /\ log[i].idxs = PrunedSet

C3_Witness ==
  /\ InvocationOver /\ graph = "chain" /\ param = "conv2d_0.w_0"
  /\ PrunedSet # {} /\ PrunedSet # 0..(NC - 1)
  /\ LogOf("conv2d_0.b_0") # {} /\ LogOf("conv2d_1.w_0") # {}

\* C4: in a conv2d -> concat(A, B) -> conv2d chain where the pruned conv2d
\* feeds slot B, the downstream conv2d's weight is pruned on axis 1 with the
\* pruned index set shifted by the channel count of slot A.
C4_ConcatShift ==
  (InvocationOver /\ graph = "concat" /\ param = "conv2d_1.w_0") =>
    /\ LogOf("conv2d_2.w_0") # {}
    /\ \A i \in LogOf("conv2d_2.w_0") :
         /\ log[i].axis = 1
         /\ log[i].idxs = {x + Chan(G, pre, "a") : x \in PrunedSet}

\* C5: in a conv2d -> mul chain whose mul input has height H and width W,
\* pruning the channel set C prunes the mul weight on axis 0 with exactly
\* { c*H*W + k : c in C, 0 <= k < H*W }.
C5_FcExpansion ==
  (InvocationOver /\ graph = "fc") =>
    /\ Cardinality(LogOf("fc_0.w_0")) = 1
    /\ \A i \in LogOf("fc_0.w_0") :
         /\ log[i].axis = 0
         /\ log[i].idxs = {c * G.shape["r0"][3] * G.shape["r0"][4] + k :
                             c \in PrunedSet,
                             k \in 0..(G.shape["r0"][3] * G.shape["r0"][4] - 1)}

C5_Witness ==
  /\ InvocationOver /\ graph = "fc"
  /\ PrunedSet # {} /\ 0 \notin PrunedSet
  /\ LogOf("fc_0.w_0") # {}

\* C6: the sweep of a parameter tries exactly ceil(1 / delta_rate) ratios,
\* and with delta_rate = 0.25 it records [1.0, 0.75, 0.5, 0.25].
C6_SweepRatios ==
  pc = "select" =>
    \A name \in DOMAIN sensitivities :
      /\ Len(sensitivities[name].pruned_percent) = CeilInverse(delta_rate)
      /\ delta_rate = FQuarter =>
           sensitivities[name].pruned_percent =
             <<FOne, F(3 * 2^24, 0), FHalf, FQuarter>>

\* self.target_ratio: no statement of the class assigns it.
target_ratio == None

RECURSIVE MagSum(_)
MagSum(s) == IF s = << >> THEN FZero ELSE MagAdd(Head(s), MagSum(Tail(s)))

\* C7: _get_best_ratios returns the parameters with a zero-loss entry, with
\* ratios that sum to target_ratio.
C7_RescaledToTarget ==
  (SelectorRan /\ \E name \in DOMAIN sensitivities : HasZeroLoss(name)) =>
    /\ err = "none"
    /\ best # None
    /\ SeqToSet(best[1].names) = {n \in DOMAIN sensitivities : HasZeroLoss(n)}
    /\ MagSum(best[1].ratios) = target_ratio[1]

\* C8: with no zero-loss entry in the table the selector ends in an explicit
\* selection error and returns nothing.
C8_ExplicitSelectionError ==
  (SelectorRan /\ \A name \in DOMAIN sensitivities : ~HasZeroLoss(name)) =>
    /\ err = "SelectionError"
    /\ best = None

\* C9: for each parameter with a zero-loss entry the selector selects the
\* largest of its zero-loss ratios.
C9_LargestZeroLoss ==
  SelectorRan =>
    \A name \in DOMAIN sensitivities :
      HasZeroLoss(name) =>
        /\ name \in DOMAIN no_loss_ratios
        /\ no_loss_ratios[name] \in ZeroLossRatios(name)
        /\ \A r \in ZeroLossRatios(name) : ~MagLess(no_loss_ratios[name], r)

\* C10: in the visit path every elementwise_add or concat has a predecessor
\* in the path, and it is a producer of one of its inputs.
C10_MergePredecessorIsProducer ==
  pc = "propagate" =>
    \A i \in 1..Len(visit_path) :
      G.ops[visit_path[i]].type \in {"elementwise_add", "concat"} =>
        /\ i >= 2
        /\ visit_path[i - 1] \in SeqToSet(pre_ops(G, visit_path[i]))

\* C11: when the visit path of a pruned conv2d weight holds a batch_norm, its
\* mean, variance, scale and shift are pruned on axis 0 with the index set
\* removed from the triggering weight.
C11_BatchNormStatistics ==
  (InvocationOver /\ graph = "bn" /\ param = "conv2d_0.w_0") =>
    \A n \in {"batch_norm_0.w_1", "batch_norm_0.w_2",
               "batch_norm_0.w_0", "batch_norm_0.b_0"} :
      /\ tensor[n].a0 = DropPositions(pre[n].a0, PrunedSet)
      /\ LogOf(n) # {}
      /\ \A i \in LogOf(n) : log[i].axis = 0 /\ log[i].idxs = PrunedSet

\* C12: when the measurement of a trial raises, every tensor the trial
\* pruned is back at its value from before the trial when the error leaves
\* _compute_sensitivities.
C12_RestoredOnMeasurementError ==
  (pc = "error" /\ err = "ExecutorError") =>
    \A n \in DOMAIN tensor : tensor[n] = pre[n]

\* C13: a call of on_batch_end applies the pruner's masks exactly when
\* start_epoch <= epoch_id < end_epoch and batch_id is a multiple of
\* mini_batch_pruning_frequency; otherwise no value changes; no call changes
\* a shape.
C13_MaskIffTriggered ==
  pc = "batch_end" =>
    /\ mask # None <=>
          (/\ start_epoch <= epoch_id /\ epoch_id < end_epoch
           /\ batch_id % mini_batch_pruning_frequency = 0)
    /\ mask = None => zeroed = pre_zeroed
    /\ mask # None =>
          \A n \in DOMAIN zeroed :
            zeroed[n] = pre_zeroed[n] \cup (Entries(tensor[n]) \ mask[1][n])
    /\ tensor = pre
    /\ \A n \in DOMAIN tensor : desc[n] = Shape(tensor[n])

C13_Witness ==
  /\ pc = "batch_end" /\ mask # None
  /\ \E n \in DOMAIN zeroed : zeroed[n] # pre_zeroed[n] /\ pre_zeroed[n] # {}
  /\ end_epoch = epoch_id + 1 /\ batch_id > 0

\* C14: during _compute_sensitivities, whenever a trial is about to begin and
\* when the analysis returns, every tensor of the scope has the value it had
\* at the baseline measurement.
C14_TrialsStartFromBaseline ==
  pc \in {"sens_param", "sens_ratio", "select"} =>
    \A n \in DOMAIN tensor : tensor[n] = G.init[n]

\* C15: after every completed mutation and every restore step each
\* Parameter's shape descriptor is the shape of its tensor in the scope.
C15_DescriptorMatchesBuffer ==
  \A n \in DOMAIN tensor : desc[n] = Shape(tensor[n])

\* The operations that take an output of operation j as an input.
ConsumersOfOp(g, j) ==
  {k \in 1..Len(g.ops) :
     SeqToSet(Outputs(g.ops[j])) \cap SeqToSet(Inputs(g.ops[k])) # {}}

\* Operation j is neither a mul nor a conv2d that does not take the parameter.
Expands(g, j, name) ==
  /\ g.ops[j].type # "mul"
  /\ ~(g.ops[j].type = "conv2d" /\ name \notin SeqToSet(Inputs(g.ops[j])))

\* The least set that holds R and the consumers of its expanding members.
RECURSIVE Reach(_, _, _)
Reach(g, name, R) ==
  LET next == R \cup UNION {ConsumersOfOp(g, j) : j \in {r \in R : Expands(g, r, name)}}
  IN  IF next = R THEN R ELSE Reach(g, name, next)

RelatedOps(g, name) ==
  Reach(g, name, {j \in 1..Len(g.ops) : name \in SeqToSet(Inputs(g.ops[j]))})

\* C16: the visit path holds exactly the operations reachable from the
\* parameter's consumers without expanding a mul or a conv2d that does not
\* take the parameter.
C16_VisitPathIsReachableSet ==
  pc = "propagate" => SeqToSet(visit_path) = RelatedOps(G, param)

C16_Witness ==
  /\ pc = "propagate" /\ graph = "fork" /\ param = "conv2d_0.w_0"
  /\ 3 \in SeqToSet(visit_path) /\ 4 \notin SeqToSet(visit_path)

\* C17: the walk terminates on every graph, cyclic ones included, and its
\* visit path holds no operation twice.
C17_WalkTerminates ==
  /\ [](\A i, j \in 1..Len(visit_path) : i # j => visit_path[i] # visit_path[j])
  /\ (pc = "search") ~> (pc = "propagate")

C17_Witness ==
  /\ pc = "propagate" /\ graph = "loop"
  /\ SeqToSet(visit_path) = {1, 2, 3, 4}

\* C18: in one invocation every Parameter is shrunk at most once, and under
\* lazy=True the Backup entry of a shrunk Parameter is its tensor from before
\* the invocation.
C18_ShrunkAtMostOnce ==
  (pc = "propagate" /\ err = "none") =>
    \A n \in DOMAIN tensor :
      /\ Cardinality(LogOf(n)) <= 1
      /\ (lazy /\ LogOf(n) # {}) => (n \in DOMAIN backup /\ backup[n] = pre[n])

\* C19: a downstream conv2d that is not reached through a concat or a mul is
\* pruned with exactly the index set removed from the triggering weight,
\* also when a mul of a sibling branch comes earlier in the visit path.
C19_IndexSetFollowsPath ==
  (graph = "fork" /\ param = "conv2d_0.w_0" /\ caller = "direct"
     /\ pc \in {"propagate", "error"}) =>
    /\ err = "none"
    /\ \A i \in LogOf("conv2d_1.w_0") : log[i].axis = 1 /\ log[i].idxs = PrunedSet
    /\ InvocationOver => LogOf("conv2d_1.w_0") # {}

IsPrefix(s, t) == Len(s) <= Len(t) /\ SubSeq(t, 1, Len(s)) = s

\* C20: a recorded (ratio, loss) entry is never removed from the sensitivity
\* table, and the ratio and loss sequences of a parameter have equal length
\* after every step.
C20_TableOnlyGrows ==
  [][\A n \in DOMAIN sensitivities :
       /\ n \in DOMAIN sensitivities'
       /\ IsPrefix(sensitivities[n].pruned_percent, sensitivities'[n].pruned_percent)
       /\ IsPrefix(sensitivities[n].acc_loss, sensitivities'[n].acc_loss)
       /\ Len(sensitivities'[n].pruned_percent) = Len(sensitivities'[n].acc_loss)]_vars

====
